---- MODULE Spec2Model ----
(***************************************************************************)
(* A model of goholint's pixel pipeline (ppu/fetcher.go, ppu/ppu.go) and   *)
(* of its wave-table sound channel (apu/wave.go).                          *)
(*                                                                         *)
(* Three machines share the module: the Fetcher with its pixel FIFO, the   *)
(* PPU's Run loop with its Tick, and WaveTable.Tick.  Each has its own     *)
(* specification; the variables of the other machines stay as they are.    *)
(***************************************************************************)
EXTENDS Integers, Sequences, FiniteSets, TLC

VARIABLES f, fifo, obs, vram, p, r, lcd, p2, r2, fifo2, lcd2, w, out, dec

vars == <<f, fifo, obs, vram, p, r, lcd, p2, r2, fifo2, lcd2, w, out, dec>>

(***************************************************************************)
(* Program constants.                                                      *)
(***************************************************************************)
ClockFactor == 2

LCDCBGTileMapDisplayeSelect == 8

LCDCBGWindowTileDataSelect == 16

LCDCDisplayEnable == 128

FifoCapacityBug == 8 - 1

FifoCapacity == 16

SpriteFlipX == 32

SpriteFlipY == 64

(***************************************************************************)
(* Fixed-width arithmetic helpers: Go's >>, & and | on bytes.              *)
(***************************************************************************)
Pow2(n) == 2^n

Bit(b, n) == (b \div Pow2(n)) % 2

HasFlag(b, mask) == (b \div mask) % 2 = 1

Int8(b) == IF b >= 128 THEN b - 256 ELSE b

OrBit1Bug(v, bit) == bit * 2

\* v | (bit << 1) on a byte.
OrBit1(v, bit) == IF bit = 1 /\ Bit(v, 1) = 0 THEN v + 2 ELSE v

(***************************************************************************)
(* The memory collaborator: a byte store.  A memory is a base image (0:    *)
(* all zeroes, 1: the patterned video memory below) and a patch, a         *)
(* function giving the bytes written over it at a few addresses.           *)
(***************************************************************************)
\* Tile map (0x9800-0x9fff): tile numbers 0, 1, 2, 254 and 255.
PatternTileID(addr) == IF (addr + addr \div 32) % 5 = 0 THEN 0
                       ELSE IF (addr + addr \div 32) % 5 = 1 THEN 1
                       ELSE IF (addr + addr \div 32) % 5 = 2 THEN 254
                       ELSE IF (addr + addr \div 32) % 5 = 3 THEN 2
                       ELSE 255

\* Tile data (0x8000-0x97ff): four plane bytes, varying with tile and row.
PatternTileByte(addr) == IF (addr + addr \div 16) % 4 = 0 THEN 176
                         ELSE IF (addr + addr \div 16) % 4 = 1 THEN 192
                         ELSE IF (addr + addr \div 16) % 4 = 2 THEN 15
                         ELSE 85

\* Sprite attributes (0xfe00-0xfe9f): Y, X, tile number, flags.
PatternOAM(addr) == IF addr % 4 = 2 THEN 1 + ((addr \div 4) % 2)
                    ELSE IF addr % 4 = 3 THEN ((addr \div 4) % 4) * 32
                    ELSE 16

Pattern(addr) == IF addr \in 32768..38911 THEN PatternTileByte(addr)
                 ELSE IF addr \in 38912..40959 THEN PatternTileID(addr)
                 ELSE IF addr \in 65024..65183 THEN PatternOAM(addr)
                 ELSE 0

PatternMemory == [base |-> 1, patch |-> << >>]

Read(mem, addr) == IF addr \in DOMAIN mem.patch THEN mem.patch[addr]
                   ELSE IF mem.base = 1 THEN Pattern(addr)
                   ELSE 0

(***************************************************************************)
(* The pixel FIFO (package fifo): a bounded queue, oldest entry first.     *)
(***************************************************************************)
FifoSize(q) == Len(q)

FifoPush(q, v) == IF Len(q) < FifoCapacity THEN Append(q, v) ELSE q

FifoClear(q) == << >>

\* Mix overlays a sprite pixel on the entry at offset i; color 0 is transparent.
FifoMix(q, i, v) == IF i + 1 \in DOMAIN q /\ v # 0 THEN [q EXCEPT ![i + 1] = v] ELSE q

FifoPopOk(q) == Len(q) > 0

FifoPopItem(q) == Head(q)

FifoPopRest(q) == Tail(q)

(***************************************************************************)
(* Fetcher.ReadTileLine: one bit plane of a tile row, decoded into data    *)
(* (a function on 0..7).                                                   *)
(***************************************************************************)
TileRowAddrBug(tileDataAddr, tileID, signedID, tileLine, flags) ==
    tileDataAddr + tileID * 16 + tileLine * 2

TileRowAddr(tileDataAddr, tileID, signedID, tileLine, flags) ==
    LET offset == IF signedID THEN tileDataAddr + Int8(tileID) * 16
                              ELSE tileDataAddr + tileID * 16
        line   == IF HasFlag(flags, SpriteFlipY) THEN (7 - tileLine) % 256 ELSE tileLine
    IN  offset + line * 2

PixelIndexBug(bitPos, flags) == bitPos

PixelIndex(bitPos, flags) == IF HasFlag(flags, SpriteFlipX) THEN bitPos ELSE 7 - bitPos

\* The loop over bitPos = 7, 6, ..., 0; d1 is the buffer after this pass.
RECURSIVE DecodeLoop(_, _, _, _, _)
DecodeLoop(bitPlane, pixelData, flags, data, bitPos) ==
    IF bitPos < 0 THEN data
    ELSE LET pixelIndex == PixelIndex(bitPos, flags)
             value == IF bitPlane = 0
                      THEN Bit(pixelData, bitPos)
                      ELSE OrBit1(data[pixelIndex], Bit(pixelData, bitPos))
         IN  CHOOSE res \in {DecodeLoop(bitPlane, pixelData, flags, d1, bitPos - 1) :
                              d1 \in {[data EXCEPT ![pixelIndex] = value]}} : TRUE

\* The address of the one byte ReadTileLine reads.
ReadAddr(bitPlane, tileDataAddr, tileID, signedID, tileLine, flags) ==
    TileRowAddr(tileDataAddr, tileID, signedID, tileLine, flags) + bitPlane

ReadTileLine(mem, bitPlane, tileDataAddr, tileID, signedID, tileLine, flags, data) ==
    LET pixelData == Read(mem, ReadAddr(bitPlane, tileDataAddr, tileID, signedID, tileLine,
                                        flags))
    IN  DecodeLoop(bitPlane, pixelData, flags, data, 7)

ZeroRow == [i \in 0..7 |-> 0]

\* A row buffer as the sequence of its 8 entries.
RowSeq(data) == [i \in 1..8 |-> data[i - 1]]

(***************************************************************************)
(* The Fetcher.                                                            *)
(***************************************************************************)
BackgroundStates == {"ReadTileID", "ReadTileData0", "ReadTileData1", "PushToFIFO"}

SpriteStates ==
    {"ReadSpriteID", "ReadSpriteFlags", "ReadSpriteData0", "ReadSpriteData1", "MixInFIFO"}

\* The zero value of the struct: disabled, nothing fetched.
FetcherZero ==
    [Enabled |-> FALSE, ticks |-> 0, state |-> "OAMSearch", oldState |-> "OAMSearch",
     mapAddr |-> 0, dataAddr |-> 0, tileOffset |-> 0, tileLine |-> 0, signedID |-> FALSE,
     tileID |-> 0, tileData |-> ZeroRow,
     sprite |-> [Address |-> 0], spriteID |-> 0, spriteFlags |-> 0,
     spriteOffset |-> 0, spriteLine |-> 0, spriteData |-> ZeroRow]

FetcherStartBug(g, mapAddr, dataAddr, tileOffset, tileLine, signedID) ==
    [g EXCEPT !.mapAddr = mapAddr, !.dataAddr = dataAddr,
              !.tileOffset = tileOffset, !.tileLine = tileLine,
              !.signedID = signedID, !.Enabled = TRUE]

\* Fetcher.Start: the new fetcher; the FIFO is cleared by the caller of this
\* operator (FetcherStartFifo).
FetcherStart(g, mapAddr, dataAddr, tileOffset, tileLine, signedID) ==
    [g EXCEPT !.mapAddr = mapAddr, !.dataAddr = dataAddr,
              !.tileOffset = tileOffset, !.tileLine = tileLine,
              !.signedID = signedID, !.state = "ReadTileID", !.Enabled = TRUE]

FetcherStartFifo(q) == FifoClear(q)

FetchSpriteBug(g, sprite, spriteOffset, spriteLine) ==
    [g EXCEPT !.sprite = sprite, !.spriteOffset = spriteOffset,
              !.spriteLine = spriteLine, !.state = "ReadSpriteID"]

FetchSprite(g, sprite, spriteOffset, spriteLine) ==
    [g EXCEPT !.sprite = sprite, !.spriteOffset = spriteOffset,
              !.spriteLine = spriteLine, !.oldState = g.state,
              !.state = "ReadSpriteID"]

\* The two loops over i = 0, ..., 7; q1 is the queue after pass i, worked out
\* once, on which the later passes go on.
RECURSIVE PushLoop(_, _, _)
PushLoop(q, data, i) ==
    IF i >= 8 THEN q
    ELSE CHOOSE res \in {PushLoop(q1, data, i + 1) : q1 \in {FifoPush(q, data[i])}} : TRUE

RECURSIVE MixRow(_, _, _)
MixRow(q, data, i) ==
    IF i >= 8 THEN q
    ELSE CHOOSE res \in {MixRow(q1, data, i + 1) : q1 \in {FifoMix(q, i, data[i])}} : TRUE

PushRowBug(q, data, i) == q \o <<data[0], data[1], data[2], data[3], data[4], data[5], data[6]>>

PushGateBug(q) == FifoSize(q) <= 9

PushGate(q) == FifoSize(q) <= 8

MixGateBug(q) == ~(FifoSize(q) < 9)

MixGate(q) == ~(FifoSize(q) < 8)

PushRow(q, data, i) == PushLoop(q, data, i)

RestoredStateBug(g) == "ReadTileID"

RestoredState(g) == g.oldState

NextTileOffsetBug(g) == g.tileOffset + 1

\* The X offset in the tile map row after a push.
NextTileOffset(g) == (g.tileOffset + 1) % 32

\* The switch of Fetcher.Tick, taken on a qualifying tick: [f, fifo].
FetcherStep(g, q, mem) ==
    CASE g.state = "ReadTileID" ->
            [f |-> [g EXCEPT !.tileID = Read(mem, g.mapAddr + g.tileOffset),
                             !.state = "ReadTileData0"],
             fifo |-> q]
      [] g.state = "ReadTileData0" ->
            [f |-> [g EXCEPT !.tileData = ReadTileLine(mem, 0, g.dataAddr, g.tileID,
                                              g.signedID, g.tileLine, 0, g.tileData),
                             !.state = "ReadTileData1"],
             fifo |-> q]
      [] g.state = "ReadTileData1" ->
            [f |-> [g EXCEPT !.tileData = ReadTileLine(mem, 1, g.dataAddr, g.tileID,
                                              g.signedID, g.tileLine, 0, g.tileData),
                             !.state = "PushToFIFO"],
             fifo |-> q]
      [] g.state = "PushToFIFO" ->
            IF PushGate(q)
            THEN [f |-> [g EXCEPT !.tileOffset = NextTileOffset(g),
                                  !.state = "ReadTileID"],
                  fifo |-> PushRow(q, g.tileData, 0)]
            ELSE [f |-> g, fifo |-> q]
      [] g.state = "ReadSpriteID" ->
            [f |-> [g EXCEPT !.spriteID = Read(mem, g.sprite.Address + 2),
                             !.state = "ReadSpriteFlags"],
             fifo |-> q]
      [] g.state = "ReadSpriteFlags" ->
            [f |-> [g EXCEPT !.spriteFlags = Read(mem, g.sprite.Address + 3),
                             !.state = "ReadSpriteData0"],
             fifo |-> q]
      [] g.state = "ReadSpriteData0" ->
            [f |-> [g EXCEPT !.spriteData = ReadTileLine(mem, 0, 32768, g.spriteID,
                                              FALSE, g.spriteLine, g.spriteFlags, g.spriteData),
                             !.state = "ReadSpriteData1"],
             fifo |-> q]
      [] g.state = "ReadSpriteData1" ->
            [f |-> [g EXCEPT !.spriteData = ReadTileLine(mem, 1, 32768, g.spriteID,
                                              FALSE, g.spriteLine, g.spriteFlags, g.spriteData),
                             !.state = "MixInFIFO"],
             fifo |-> q]
      [] g.state = "MixInFIFO" ->
            IF MixGate(q)
            THEN [f |-> [g EXCEPT !.state = RestoredState(g)],
                  fifo |-> MixRow(q, g.spriteData, 0)]
            ELSE [f |-> g, fifo |-> q]
      [] OTHER -> [f |-> g, fifo |-> q]

FetcherTickBug(g, q, mem) ==
    IF ~g.Enabled THEN [f |-> g, fifo |-> q]
    ELSE IF g.ticks + 1 < ClockFactor THEN [f |-> [g EXCEPT !.ticks = g.ticks + 1], fifo |-> q]
    ELSE FetcherStep([g EXCEPT !.ticks = g.ticks + 1], q, mem)

\* Fetcher.Tick: [f, fifo].
FetcherTick(g, q, mem) ==
    IF ~g.Enabled THEN [f |-> g, fifo |-> q]
    ELSE IF g.ticks + 1 < ClockFactor THEN [f |-> [g EXCEPT !.ticks = g.ticks + 1], fifo |-> q]
    ELSE FetcherStep([g EXCEPT !.ticks = 0], q, mem)

(***************************************************************************)
(* The Output Sink (lcd.Display), as the calls it has received: the last   *)
(* call and its pixel, the Write calls since the last HBlank, and the      *)
(* HBlank, VBlank and Blank calls so far.                                  *)
(***************************************************************************)
LCDZero ==
    [last |-> "None", pixel |-> 0, linePixels |-> 0, hblanks |-> 0, vblanks |-> 0,
     blanks |-> 0]

LCDWrite(l, pixel) == [l EXCEPT !.last = "Write", !.pixel = pixel,
                                !.linePixels = l.linePixels + 1]

LCDBlank(l) == [l EXCEPT !.last = "Blank", !.blanks = l.blanks + 1]

LCDHBlank(l) == [l EXCEPT !.last = "HBlank", !.linePixels = 0, !.hblanks = l.hblanks + 1]

LCDVBlank(l) == [l EXCEPT !.last = "VBlank", !.vblanks = l.vblanks + 1]

(***************************************************************************)
(* The PPU.                                                                *)
(***************************************************************************)
PPUZero ==
    [Cycle |-> 0, LCDC |-> 0, SCY |-> 0, SCX |-> 0, LY |-> 0, ticks |-> 0,
     state |-> "OAMSearch", oamIndex |-> 0]

DisplayOffBug(q) == FALSE

\* p.LCDC&LCDCDisplayEnable == 0
DisplayOff(q) == ~HasFlag(q.LCDC, LCDCDisplayEnable)

SearchStepsBug(q) == IF DisplayOff(q) THEN 41 ELSE 40

VisibleLinesBug == 143 + 2

SearchSteps(q) == 40

\* PPU.Tick: [p, lcd].
PPUTick(q, l) ==
    LET q1 == [q EXCEPT !.Cycle = q.Cycle + 1, !.ticks = q.ticks + 1]
    IN  IF q1.ticks < ClockFactor THEN [p |-> q1, lcd |-> l]
        ELSE LET q2 == [q1 EXCEPT !.ticks = 0]
                 l2 == IF DisplayOff(q2) THEN LCDBlank(l) ELSE l
             IN  IF q2.state = "OAMSearch"
                 THEN LET q3 == [q2 EXCEPT !.oamIndex = q2.oamIndex + 1]
                      IN  IF q3.oamIndex >= SearchSteps(q3)
                          THEN [p |-> [q3 EXCEPT !.state = "PixelTransfer"], lcd |-> l2]
                          ELSE [p |-> q3, lcd |-> l2]
                 ELSE [p |-> q2, lcd |-> l2]

PoppedPixelBug(q, l) == LCDBlank(l)

\* The sink after a pixel has been shifted out of queue q.
PoppedPixel(q, l) == LCDWrite(l, FifoPopItem(q))

\* PPU.Pop: [fifo, lcd, n], n the number of shifted pixels.
PPUPop(q, l) ==
    IF FifoPopOk(q)
    THEN [fifo |-> FifoPopRest(q), lcd |-> PoppedPixel(q, l), n |-> 1]
    ELSE [fifo |-> q, lcd |-> l, n |-> 0]

\* PPU.FetchTileNumber
FetchTileNumber(q, mem, x, y) ==
    LET bgMapOffset == IF HasFlag(q.LCDC, LCDCBGTileMapDisplayeSelect) THEN 39936 ELSE 38912
        bgMapIndex  == q.SCX \div 8 + x \div 8 + (y \div 8) * 32
    IN  Read(mem, bgMapOffset + bgMapIndex)

\* The address of the tile row to render, as PPU.Run computes it.
RunTileRowAddr(q, tileNb, y) ==
    LET tileLine       == y % 8
        tileDataOffset == IF HasFlag(q.LCDC, LCDCBGWindowTileDataSelect)
                          THEN 32768 + tileNb * 16
                          ELSE 36864 + tileNb * 16
    IN  tileDataOffset + tileLine * 2

RunPixel(lineLo, lineHi, bit) == Bit(lineHi, bit) * 2 + Bit(lineLo, bit)

\* PPU.Decode: the 8 pixels of the row at addr, appended for bits 7, 6, ..., 0.
RECURSIVE DecodeAppend(_, _, _, _)
DecodeAppend(line, lineLo, lineHi, bit) ==
    IF bit < 0 THEN line
    ELSE DecodeAppend(Append(line, RunPixel(lineLo, lineHi, bit)), lineLo, lineHi, bit - 1)

PPUDecode(mem, addr) == DecodeAppend(<< >>, Read(mem, addr), Read(mem, addr + 1), 7)

\* The loop pushing bits 7, 6, ..., 0.
RECURSIVE RunPushLoop(_, _, _, _)
RunPushLoop(q, lineLo, lineHi, bit) ==
    IF bit < 0 THEN q
    ELSE RunPushLoop(FifoPush(q, RunPixel(lineLo, lineHi, bit)), lineLo, lineHi, bit - 1)

RunPushBug(q, lineLo, lineHi, bit) == RunPushLoop(q, lineLo, lineHi, bit - 1)

RunPush(q, lineLo, lineHi, bit) == RunPushLoop(q, lineLo, lineHi, bit)

VisibleLines == 144

FrameLines == 154

LineWidth == 160

\* Where PPU.Run is, and its locals; pops counts the calls of Pop made in this
\* pass of the transfer loop since its last memory read, and carry is the
\* queue as it was at the last call of LCD.HBlank.
RunZero ==
    [pc |-> "line", x |-> 0, y |-> 0, tileNb |-> 0, addr |-> 0, lineLo |-> 0, lineHi |-> 0,
     pops |-> 0, carry |-> << >>]

PopSteps == {"pop1", "pop2", "pop3", "pop4", "pop5", "pop6", "pop7", "pop8"}

ReadSteps == {"fetch", "readLo", "readHi", "push"}

AfterPopBug(at) ==
    CASE at = "pop1" -> "fetch"  [] at = "pop2" -> "fetch"
      [] at = "pop3" -> "pop4"   [] at = "pop4" -> "readLo"
      [] at = "pop5" -> "pop6"   [] at = "pop6" -> "readHi"
      [] at = "pop7" -> "pop8"   [] at = "pop8" -> "push"

AfterPop(at) ==
    CASE at = "pop1" -> "pop2"   [] at = "pop2" -> "fetch"
      [] at = "pop3" -> "pop4"   [] at = "pop4" -> "readLo"
      [] at = "pop5" -> "pop6"   [] at = "pop6" -> "readHi"
      [] at = "pop7" -> "pop8"   [] at = "pop8" -> "push"

\* One step of PPU.Run from position rr.pc: [p, r, fifo, lcd].
RunStep(q, rr, qu, l, mem) ==
    CASE rr.pc = "line" ->
            IF q.LY < VisibleLines
            THEN [p |-> q, r |-> [rr EXCEPT !.pc = "transfer", !.x = 0], fifo |-> qu, lcd |-> l]
            ELSE [p |-> q, r |-> [rr EXCEPT !.pc = "vblank"], fifo |-> qu, lcd |-> l]
      [] rr.pc = "transfer" ->
            IF rr.x < LineWidth
            THEN [p |-> q, r |-> [rr EXCEPT !.pc = "pop1", !.pops = 0], fifo |-> qu, lcd |-> l]
            ELSE [p |-> q, r |-> [rr EXCEPT !.pc = "hblank"], fifo |-> qu, lcd |-> l]
      [] rr.pc \in PopSteps ->
            LET n == PPUPop(qu, l)
            IN  [p |-> q,
                 r |-> [rr EXCEPT !.pc = AfterPop(rr.pc), !.x = rr.x + n.n,
                                  !.pops = rr.pops + 1],
                 fifo |-> n.fifo, lcd |-> n.lcd]
      [] rr.pc = "fetch" ->
            LET y == (q.SCY + q.LY) % 256
            IN  [p |-> q,
                 r |-> [rr EXCEPT !.pc = "pop3", !.y = y, !.pops = 0,
                                  !.tileNb = FetchTileNumber(q, mem, rr.x, y)],
                 fifo |-> qu, lcd |-> l]
      [] rr.pc = "readLo" ->
            LET addr == RunTileRowAddr(q, rr.tileNb, rr.y)
            IN  [p |-> q,
                 r |-> [rr EXCEPT !.pc = "pop5", !.addr = addr, !.pops = 0,
                                  !.lineLo = Read(mem, addr)],
                 fifo |-> qu, lcd |-> l]
      [] rr.pc = "readHi" ->
            [p |-> q,
             r |-> [rr EXCEPT !.pc = "pop7", !.pops = 0, !.lineHi = Read(mem, rr.addr + 1)],
             fifo |-> qu, lcd |-> l]
      [] rr.pc = "push" ->
            [p |-> q, r |-> [rr EXCEPT !.pc = "tick", !.pops = 0],
             fifo |-> RunPush(qu, rr.lineLo, rr.lineHi, 7), lcd |-> l]
      [] rr.pc = "tick" ->
            LET n == PPUTick(q, l)
            IN  [p |-> n.p, r |-> [rr EXCEPT !.pc = "transfer"], fifo |-> qu, lcd |-> n.lcd]
      [] rr.pc = "hblank" ->
            [p |-> [q EXCEPT !.LY = (q.LY + 1) % 256],
             r |-> [rr EXCEPT !.pc = "line", !.carry = qu],
             fifo |-> qu, lcd |-> LCDHBlank(l)]
      [] rr.pc = "vblank" ->
            [p |-> q, r |-> [rr EXCEPT !.pc = "blank"], fifo |-> qu, lcd |-> LCDVBlank(l)]
      [] rr.pc = "blank" ->
            IF q.LY < FrameLines
            THEN [p |-> [q EXCEPT !.LY = (q.LY + 1) % 256], r |-> rr, fifo |-> qu, lcd |-> l]
            ELSE [p |-> [q EXCEPT !.LY = 0], r |-> [rr EXCEPT !.pc = "line"],
                  fifo |-> qu, lcd |-> l]

(***************************************************************************)
(* The wave-table channel (apu.WaveTable).                                 *)
(***************************************************************************)
NRx4RestartSound == 128

NR30SoundOn == 128

GameBoyRate == 4194304

\* The sub-ticks counted by one call of Tick.  The program's SoundOutRate is
\* declared outside these sources; the loop is run here for a small value.
SoundOutRate == 3

OutputShiftBug(code) == 4 - code

OutputShift(code) == CASE code = 0 -> 4 [] code = 1 -> 0 [] code = 2 -> 1 [] code = 3 -> 2

\* Wave pattern RAM: 16 bytes, here the nibbles 0, 1, ..., 15 twice over.
PatternBytes == [i \in 0..15 |-> ((2 * i) % 16) * 16 + ((2 * i + 1) % 16)]

WaveZero ==
    [NRx0 |-> 0, NRx1 |-> 0, NRx2 |-> 0, NRx3 |-> 0, NRx4 |-> 0,
     Pattern |-> PatternBytes, enabled |-> FALSE,
     sample |-> 0, sampleOffset |-> 0, ticks |-> 0]

Restart(v) == HasFlag(v.NRx4, NRx4RestartSound)

SoundOn(v) == HasFlag(v.NRx0, NR30SoundOn)

TriggeredStillSetBug(v) == [v EXCEPT !.enabled = TRUE, !.ticks = 0]

TriggeredBug(v) == [v EXCEPT !.NRx4 = v.NRx4 - NRx4RestartSound, !.enabled = TRUE]

\* The channel after the restart bit has been seen.
Triggered(v) == [v EXCEPT !.NRx4 = v.NRx4 - NRx4RestartSound, !.enabled = TRUE, !.ticks = 0]

RawFreqBug(v) == (v.NRx4 % 16) * 256 + v.NRx3

RawFreq(v) == (v.NRx4 % 8) * 256 + v.NRx3

Freq(v) == 65536 \div (2048 - RawFreq(v))

SamplePeriod(v) == GameBoyRate \div (Freq(v) * 32)

\* One pass of the loop body.
SubTick(v) ==
    LET v1 == [v EXCEPT !.ticks = v.ticks + 1]
    IN  IF v1.ticks >= SamplePeriod(v1)
        THEN LET sampleOffset == (v1.sampleOffset + 1) % 32
                 sampleByte   == sampleOffset \div 2
                 sampleShift  == 4 - ((sampleOffset % 2) * 4)
                 nibble       == (v1.Pattern[sampleByte] \div Pow2(sampleShift)) % 16
                 code         == (v1.NRx2 \div 32) % 4
             IN  [v1 EXCEPT !.sampleOffset = sampleOffset, !.ticks = 0,
                            !.sample = nibble \div Pow2(OutputShift(code))]
        ELSE v1

\* The loop: SoundOutRate passes of its body.
RECURSIVE SubTicks(_, _)
SubTicks(v, i) == IF i >= SoundOutRate THEN v ELSE SubTicks(SubTick(v), i + 1)

SilencedBug(v) == ~v.enabled

\* The two early returns of Tick.
Silenced(v) == ~v.enabled \/ ~SoundOn(v)

\* WaveTable.Tick: the channel after the call, the sample returned, and the
\* way taken through the call.
WaveTick(v) ==
    LET v1 == IF Restart(v) THEN Triggered(v) ELSE v
    IN  IF Silenced(v1)
        THEN [w |-> v1, sample |-> 0, restarted |-> Restart(v),
              path |-> IF ~v1.enabled THEN "disabled" ELSE "off"]
        ELSE LET v2 == SubTicks(v1, 0)
             IN  [w |-> v2, sample |-> v2.sample, restarted |-> Restart(v), path |-> "played"]

\* What the caller got from the last Tick; tick flips at every call.
OutZero == [sample |-> 0, tick |-> FALSE, restarted |-> FALSE, path |-> "none"]

(***************************************************************************)
(* Row decoding on its own: a tile row's two plane bytes in memory, read   *)
(* by ReadTileLine for plane 0, then for plane 1, then by PPU.Decode.  A    *)
(* second buffer, mirror, goes through the same two calls with the         *)
(* horizontal-flip flag the other way; reads and mirrorReads are the       *)
(* addresses each of the two has read.                                     *)
(***************************************************************************)
DecodeZero ==
    [stage |-> "idle", lo |-> 0, hi |-> 0, addr |-> 0, dataAddr |-> 0, tileID |-> 0,
     signedID |-> FALSE, tileLine |-> 0, flags |-> 0, prior |-> ZeroRow,
     data |-> ZeroRow, line |-> << >>,
     mirror |-> ZeroRow, reads |-> << >>, mirrorReads |-> << >>]

(***************************************************************************)
(* The fetcher's specification: a caller that starts fetches, requests     *)
(* sprites, delivers ticks and pops single pixels, in any order.           *)
(***************************************************************************)
\* How many batches one Start may enqueue before the model stops it.
MaxTiles == 3

Contexts ==
    { [mapAddr |-> 38912, dataAddr |-> 32768, tileOffset |-> 31, tileLine |-> 0,
       signedID |-> FALSE],
      [mapAddr |-> 39936, dataAddr |-> 36864, tileOffset |-> 1, tileLine |-> 7,
       signedID |-> TRUE] }

Sprites == { [Address |-> 65028] }

ZeroContext ==
    [mapAddr |-> 0, dataAddr |-> 0, tileOffset |-> 0, tileLine |-> 0, signedID |-> FALSE]

\* What the checks remember of a run: since the last Start, the qualifying
\* ticks taken (counted to 4), the entries enqueued, the batches enqueued and
\* whether no sprite fetch has intervened; of a sprite fetch requested in a
\* background state, that state and the background tile at the request; of
\* the last Start, its arguments and, until the next Tick or FetchSprite, the
\* state it was called in and whether the machine was stalled there; of a
\* sprite fetch that has not reached MixInFIFO, the ticks delivered since its
\* request.
ObsZero ==
    [qticks |-> 0, enq |-> 0, tiles |-> 0, clean |-> FALSE,
     active |-> FALSE, returned |-> FALSE,
     S |-> "OAMSearch", tileID |-> 0, tileData |-> ZeroRow, steps |-> 0,
     ctx |-> ZeroContext, from |-> "None", stalled |-> FALSE, since |-> 0]

\* The machine is where a qualifying tick changes nothing.
Stalled(g, q) == \/ g.state = "PushToFIFO" /\ ~PushGate(q)
                 \/ g.state = "MixInFIFO" /\ ~MixGate(q)

ObsSettled(o) == [o EXCEPT !.from = "None", !.stalled = FALSE]

\* since after a Tick that leaves the fetcher as g.
ObsSince(o, g) ==
    [o EXCEPT !.since = IF o.active /\ g.state \in SpriteStates \ {"MixInFIFO"}
                        THEN o.since + 1 ELSE 0]

ObsIdle(o) == [o EXCEPT !.active = FALSE, !.returned = FALSE, !.S = "OAMSearch",
                        !.tileID = 0, !.tileData = ZeroRow, !.steps = 0, !.since = 0]

\* obs after a Tick that takes fetcher g and queue q to n.f and n.fifo.
ObsTick(o, g, q, n) ==
    LET qualifying == g.Enabled /\ g.ticks + 1 >= ClockFactor
        o1 == IF qualifying /\ o.clean /\ o.qticks < 4
              THEN [o EXCEPT !.qticks = o.qticks + 1, !.enq = o.enq + Len(n.fifo) - Len(q)]
              ELSE o
        o2 == IF Len(n.fifo) > Len(q) THEN [o1 EXCEPT !.tiles = o.tiles + 1] ELSE o1
    IN  IF ~qualifying THEN o2
        ELSE IF ~o.active THEN ObsIdle(o2)
        ELSE IF n.f.state \in SpriteStates
             THEN [o2 EXCEPT !.steps = IF n.f.state = g.state THEN o.steps ELSE o.steps + 1]
             ELSE [o2 EXCEPT !.active = FALSE, !.returned = TRUE]

InitPPUIdle == p = PPUZero /\ r = RunZero /\ lcd = LCDZero

InitTwinIdle == p2 = PPUZero /\ r2 = RunZero /\ fifo2 = << >> /\ lcd2 = LCDZero

InitWaveIdle == w = WaveZero /\ out = OutZero

InitDecodeIdle == dec = DecodeZero

InitFetcherIdle == f = FetcherZero /\ obs = ObsZero

InitFetcher ==
    /\ f = FetcherZero
    /\ fifo = << >>
    /\ obs = ObsZero
    /\ vram = PatternMemory
    /\ InitPPUIdle /\ InitTwinIdle /\ InitWaveIdle /\ InitDecodeIdle

Start ==
    \E c \in Contexts :
        /\ f' = FetcherStart(f, c.mapAddr, c.dataAddr, c.tileOffset, c.tileLine, c.signedID)
        /\ fifo' = FetcherStartFifo(fifo)
        /\ obs' = [ObsZero EXCEPT !.clean = TRUE, !.ctx = c, !.from = f.state,
                                  !.stalled = Stalled(f, fifo)]
        /\ UNCHANGED <<vram, p, r, lcd, p2, r2, fifo2, lcd2, w, out, dec>>

\* FetchSprite is for an enabled fetcher; it may come in any state of it.
CallFetchSprite ==
    \E s \in Sprites :
        /\ f.Enabled
        /\ f' = FetchSprite(f, s, 0, 0)
        /\ obs' = ObsSettled(
                     IF f.state \in BackgroundStates
                     THEN [obs EXCEPT !.clean = FALSE, !.active = TRUE, !.S = f.state,
                                      !.tileID = f.tileID, !.tileData = f.tileData,
                                      !.steps = 0, !.since = 0]
                     ELSE ObsIdle([obs EXCEPT !.clean = FALSE]))
        /\ UNCHANGED <<fifo, vram, p, r, lcd, p2, r2, fifo2, lcd2, w, out, dec>>

Tick ==
    \E n \in {FetcherTick(f, fifo, vram)} :
        /\ Len(n.fifo) > Len(fifo) => obs.tiles < MaxTiles
        /\ f' = n.f
        /\ fifo' = n.fifo
        /\ obs' = ObsSince(ObsSettled(ObsTick(obs, f, fifo, n)), n.f)
        /\ UNCHANGED <<vram, p, r, lcd, p2, r2, fifo2, lcd2, w, out, dec>>

\* The consumer: one pixel shifted out of the FIFO, if there is one.
Pop ==
    /\ fifo' = IF FifoPopOk(fifo) THEN FifoPopRest(fifo) ELSE fifo
    /\ UNCHANGED <<f, obs, vram, p, r, lcd, p2, r2, fifo2, lcd2, w, out, dec>>

NextFetcher == Start \/ CallFetchSprite \/ Tick \/ Pop

SpecFetcher == InitFetcher /\ [][NextFetcher]_vars

(***************************************************************************)
(* The fetcher with a sprite fetch left to run its course: once FetchSprite *)
(* has been called the caller only delivers ticks and pops pixels until    *)
(* the machine is out of the sprite states.  Ticks keep coming: Tick is    *)
(* called again wherever it can be.                                        *)
(***************************************************************************)
SpriteIdle == f.state \notin SpriteStates

\* The test of Tick's guard: the tick would not enqueue past the model's bound.
TickAllowed ==
    Len(FetcherTick(f, fifo, vram).fifo) > Len(fifo) => obs.tiles < MaxTiles

NextSprite == (SpriteIdle /\ Start) \/ (SpriteIdle /\ CallFetchSprite) \/ Tick \/ Pop

SpecSprite == InitFetcher /\ [][NextSprite]_vars /\ WF_vars(Tick)

(***************************************************************************)
(* The fetcher with a caller that requests a sprite only while the machine *)
(* is on the background path; Start, Tick and Pop come as before.          *)
(***************************************************************************)
OnBackgroundPath == f.state \in BackgroundStates

NextGuarded == Start \/ (OnBackgroundPath /\ CallFetchSprite) \/ Tick \/ Pop

SpecGuarded == InitFetcher /\ [][NextGuarded]_vars

(***************************************************************************)
(* The clocked components together: the driver delivers ticks to the       *)
(* fetcher and to a new PPU, each any number of times and in any order.    *)
(***************************************************************************)
\* How many ticks the PPU is given before the model stops them.
MaxCycles == 2

PPUClock ==
    LET n == PPUTick(p, lcd)
    IN  /\ p.Cycle < MaxCycles
        /\ p' = n.p
        /\ lcd' = n.lcd
        /\ UNCHANGED <<f, fifo, obs, vram, r, p2, r2, fifo2, lcd2, w, out, dec>>

NextClock == Start \/ CallFetchSprite \/ Tick \/ Pop \/ PPUClock

SpecClock == InitFetcher /\ [][NextClock]_vars

(***************************************************************************)
(* The PPU's specification: PPU.Run, one statement at a time, on a PPU     *)
(* whose registers were set before it started.                             *)
(***************************************************************************)
\* How many frames Run draws before the model stops it.
MaxFrames == 2

PPUConfigs ==
    { [LCDC |-> 145, SCY |-> 0, SCX |-> 0],
      [LCDC |-> 9, SCY |-> 3, SCX |-> 8],
      [LCDC |-> 128, SCY |-> 250, SCX |-> 0] }

Configured(c) == [PPUZero EXCEPT !.LCDC = c.LCDC, !.SCY = c.SCY, !.SCX = c.SCX]

InitPPU ==
    /\ \E c \in PPUConfigs : p = Configured(c)
    /\ r = RunZero
    /\ fifo = << >>
    /\ lcd = LCDZero
    /\ vram = PatternMemory
    /\ InitFetcherIdle /\ InitTwinIdle /\ InitWaveIdle /\ InitDecodeIdle

\* Run goes on unless the model's frame budget is spent.
RunEnabled(q, rr, l) == ~(rr.pc = "blank" /\ q.LY >= FrameLines /\ l.vblanks >= MaxFrames)

Run ==
    LET n == RunStep(p, r, fifo, lcd, vram)
    IN  /\ RunEnabled(p, r, lcd)
        /\ p' = n.p /\ r' = n.r /\ fifo' = n.fifo /\ lcd' = n.lcd
        /\ UNCHANGED <<f, obs, vram, p2, r2, fifo2, lcd2, w, out, dec>>

NextPPU == Run

SpecPPU == InitPPU /\ [][NextPPU]_vars

(***************************************************************************)
(* Two PPUs run side by side on the same memory and the same registers but *)
(* for the display-on bit: set in the first, cleared in the second.        *)
(***************************************************************************)
InitPair ==
    /\ \E c \in PPUConfigs :
          /\ HasFlag(c.LCDC, LCDCDisplayEnable)
          /\ p = Configured(c)
          /\ p2 = Configured([c EXCEPT !.LCDC = c.LCDC - LCDCDisplayEnable])
    /\ r = RunZero /\ r2 = RunZero
    /\ fifo = << >> /\ fifo2 = << >>
    /\ lcd = LCDZero /\ lcd2 = LCDZero
    /\ vram = PatternMemory
    /\ InitFetcherIdle /\ InitWaveIdle /\ InitDecodeIdle

RunBoth ==
    LET n == RunStep(p, r, fifo, lcd, vram)
        m == RunStep(p2, r2, fifo2, lcd2, vram)
    IN  /\ RunEnabled(p, r, lcd) /\ RunEnabled(p2, r2, lcd2)
        /\ p' = n.p /\ r' = n.r /\ fifo' = n.fifo /\ lcd' = n.lcd
        /\ p2' = m.p /\ r2' = m.r /\ fifo2' = m.fifo /\ lcd2' = m.lcd
        /\ UNCHANGED <<f, obs, vram, w, out, dec>>

NextPair == RunBoth

SpecPair == InitPair /\ [][NextPair]_vars

(***************************************************************************)
(* The wave channel's specification: the program writes the channel's      *)
(* registers, the sound loop calls Tick.                                   *)
(***************************************************************************)
NRx0Values == {0, 128}

NRx2Values == {0, 32, 64, 96}

NRx3Values == {255, 254}

NRx4Values == {7, 135, 199}

\* The channel once the program has set its frequency registers.
InitWave ==
    /\ w = [WaveZero EXCEPT !.NRx3 = 255, !.NRx4 = 7]
    /\ out = OutZero
    /\ fifo = << >>
    /\ vram = PatternMemory
    /\ InitFetcherIdle /\ InitPPUIdle /\ InitTwinIdle /\ InitDecodeIdle

WriteNRx0 ==
    /\ \E v \in NRx0Values : w' = [w EXCEPT !.NRx0 = v]
    /\ UNCHANGED <<f, fifo, obs, vram, p, r, lcd, p2, r2, fifo2, lcd2, out, dec>>

WriteNRx2 ==
    /\ \E v \in NRx2Values : w' = [w EXCEPT !.NRx2 = v]
    /\ UNCHANGED <<f, fifo, obs, vram, p, r, lcd, p2, r2, fifo2, lcd2, out, dec>>

WriteNRx3 ==
    /\ \E v \in NRx3Values : w' = [w EXCEPT !.NRx3 = v]
    /\ UNCHANGED <<f, fifo, obs, vram, p, r, lcd, p2, r2, fifo2, lcd2, out, dec>>

WriteNRx4 ==
    /\ \E v \in NRx4Values : w' = [w EXCEPT !.NRx4 = v]
    /\ UNCHANGED <<f, fifo, obs, vram, p, r, lcd, p2, r2, fifo2, lcd2, out, dec>>

WaveTableTick ==
    LET n == WaveTick(w)
    IN  /\ w' = n.w
        /\ out' = [sample |-> n.sample, tick |-> ~out.tick, restarted |-> n.restarted,
                   path |-> n.path]
        /\ UNCHANGED <<f, fifo, obs, vram, p, r, lcd, p2, r2, fifo2, lcd2, dec>>

NextWave == WriteNRx0 \/ WriteNRx2 \/ WriteNRx3 \/ WriteNRx4 \/ WaveTableTick

SpecWave == InitWave /\ [][NextWave]_vars

(***************************************************************************)
(* The frequency specification: the program has switched the channel on    *)
(* and written any two bytes, restart bit set, to the frequency registers; *)
(* Tick is then called, once.                                              *)
(***************************************************************************)
InitFreq ==
    /\ \E lo \in 0..255, hi \in 128..255 :
          w = [WaveZero EXCEPT !.NRx0 = NR30SoundOn, !.NRx3 = lo, !.NRx4 = hi]
    /\ out = OutZero
    /\ fifo = << >>
    /\ vram = PatternMemory
    /\ InitFetcherIdle /\ InitPPUIdle /\ InitTwinIdle /\ InitDecodeIdle

FirstTick == out.path = "none" /\ WaveTableTick

NextFreq == FirstTick

SpecFreq == InitFreq /\ [][NextFreq]_vars

(***************************************************************************)
(* The decoding specification: plane bytes, flags and the row buffer's     *)
(* prior content are chosen, then the three reads are made in turn.        *)
(***************************************************************************)
ByteSamples == {0, 1, 15, 85, 128, 176, 192, 255}

FlagSamples == {0, SpriteFlipX, SpriteFlipY, SpriteFlipX + SpriteFlipY}

RowSamples == {ZeroRow, [i \in 0..7 |-> 3], [i \in 0..7 |-> i % 4]}

TileSamples ==
    { [dataAddr |-> 32768, tileID |-> 2, signedID |-> FALSE, tileLine |-> 0],
      [dataAddr |-> 36864, tileID |-> 254, signedID |-> TRUE, tileLine |-> 5] }

InitDecode ==
    /\ \E lo \in ByteSamples, hi \in ByteSamples, fl \in FlagSamples, pr \in RowSamples,
          t \in TileSamples :
          LET addr == TileRowAddr(t.dataAddr, t.tileID, t.signedID, t.tileLine, fl)
          IN  /\ dec = [DecodeZero EXCEPT !.lo = lo, !.hi = hi, !.addr = addr,
                                          !.dataAddr = t.dataAddr, !.tileID = t.tileID,
                                          !.signedID = t.signedID, !.tileLine = t.tileLine,
                                          !.flags = fl, !.prior = pr, !.data = pr,
                                          !.mirror = pr]
              /\ vram = [base |-> 0, patch |-> (addr :> lo) @@ (addr + 1 :> hi)]
    /\ fifo = << >>
    /\ InitFetcherIdle /\ InitPPUIdle /\ InitTwinIdle /\ InitWaveIdle

ReadPlane(bitPlane) ==
    ReadTileLine(vram, bitPlane, dec.dataAddr, dec.tileID, dec.signedID, dec.tileLine,
                 dec.flags, dec.data)

\* The flags with the horizontal-flip flag the other way.
OtherFlipX(flags) == IF HasFlag(flags, SpriteFlipX) THEN flags - SpriteFlipX
                     ELSE flags + SpriteFlipX

ReadMirror(bitPlane) ==
    ReadTileLine(vram, bitPlane, dec.dataAddr, dec.tileID, dec.signedID, dec.tileLine,
                 OtherFlipX(dec.flags), dec.mirror)

ReadsAfter(bitPlane) ==
    Append(dec.reads, ReadAddr(bitPlane, dec.dataAddr, dec.tileID, dec.signedID,
                               dec.tileLine, dec.flags))

MirrorReadsAfter(bitPlane) ==
    Append(dec.mirrorReads, ReadAddr(bitPlane, dec.dataAddr, dec.tileID, dec.signedID,
                                     dec.tileLine, OtherFlipX(dec.flags)))

ReadPlane0 ==
    /\ dec.stage = "idle"
    /\ dec' = [dec EXCEPT !.stage = "plane0", !.data = ReadPlane(0),
                          !.mirror = ReadMirror(0), !.reads = ReadsAfter(0),
                          !.mirrorReads = MirrorReadsAfter(0)]
    /\ UNCHANGED <<f, fifo, obs, vram, p, r, lcd, p2, r2, fifo2, lcd2, w, out>>

ReadPlane1 ==
    /\ dec.stage = "plane0"
    /\ dec' = [dec EXCEPT !.stage = "plane1", !.data = ReadPlane(1),
                          !.mirror = ReadMirror(1), !.reads = ReadsAfter(1),
                          !.mirrorReads = MirrorReadsAfter(1)]
    /\ UNCHANGED <<f, fifo, obs, vram, p, r, lcd, p2, r2, fifo2, lcd2, w, out>>

Decode ==
    /\ dec.stage = "plane1"
    /\ dec' = [dec EXCEPT !.stage = "decoded", !.line = PPUDecode(vram, dec.addr)]
    /\ UNCHANGED <<f, fifo, obs, vram, p, r, lcd, p2, r2, fifo2, lcd2, w, out>>

NextDecode == ReadPlane0 \/ ReadPlane1 \/ Decode

SpecDecode == InitDecode /\ [][NextDecode]_vars

(***************************************************************************)
(* A tile row through the fetcher: the machine has pushed a row (its       *)
(* buffer and the queue hold it) and is about to fetch the tile whose two  *)
(* plane bytes are chosen here; ticks come and sprites may be requested.   *)
(***************************************************************************)
InitRow ==
    /\ \E lo \in ByteSamples, hi \in ByteSamples, pr \in RowSamples, c \in Contexts :
          LET tileID == Read(PatternMemory, c.mapAddr + c.tileOffset)
              addr   == TileRowAddr(c.dataAddr, tileID, c.signedID, c.tileLine, 0)
          IN  /\ f = [FetcherStart(FetcherZero, c.mapAddr, c.dataAddr, c.tileOffset,
                                   c.tileLine, c.signedID) EXCEPT !.tileData = pr]
              /\ fifo = RowSeq(pr)
              /\ obs = [ObsZero EXCEPT !.ctx = c]
              /\ vram = [base |-> 1, patch |-> (addr :> lo) @@ (addr + 1 :> hi)]
    /\ InitPPUIdle /\ InitTwinIdle /\ InitWaveIdle /\ InitDecodeIdle

NextRow == Tick \/ CallFetchSprite

SpecRow == InitRow /\ [][NextRow]_vars

(***************************************************************************)
(* The two tile-row address computations side by side: a tile number is in *)
(* the first entry of the tile map, the fetcher is started on it with the  *)
(* context that the tile-data select bit of LCDC stands for (bit set:      *)
(* 0x8000, unsigned; bit clear: 0x9000, signed), and Run starts its first  *)
(* line.  Each goes on until it has read the first plane byte of the row.  *)
(***************************************************************************)
TileBytes == 0..255

TileLines == 0..7

InitAddr ==
    /\ \E t \in TileBytes, line \in TileLines, signedID \in BOOLEAN :
          LET c == [mapAddr |-> 38912,
                    dataAddr |-> IF signedID THEN 36864 ELSE 32768,
                    tileOffset |-> 0, tileLine |-> line, signedID |-> signedID]
          IN  /\ p = [PPUZero EXCEPT !.SCY = line,
                                     !.LCDC = IF signedID THEN LCDCDisplayEnable + 1
                                              ELSE LCDCDisplayEnable
                                                   + LCDCBGWindowTileDataSelect + 1]
              /\ f = FetcherStart(FetcherZero, c.mapAddr, c.dataAddr, c.tileOffset,
                                  c.tileLine, c.signedID)
              /\ obs = [ObsZero EXCEPT !.ctx = c]
              /\ vram = [base |-> 1, patch |-> (38912 :> t)]
    /\ r = RunZero
    /\ fifo = << >>
    /\ lcd = LCDZero
    /\ InitTwinIdle /\ InitWaveIdle /\ InitDecodeIdle

\* The fetcher's ticks up to its read of plane 0.
FetchRow == f.state \in {"ReadTileID", "ReadTileData0"} /\ Tick

\* Run's statements up to its read of lineLo.
RunRow == r.pc # "pop5" /\ Run

NextAddr == FetchRow \/ RunRow

SpecAddr == InitAddr /\ [][NextAddr]_vars

(***************************************************************************)
(* Properties of the fetcher.                                              *)
(***************************************************************************)
\* A Tick that reaches the divisor: the only step that takes ticks back to 0.
QualifyingTick == f.Enabled /\ f.ticks = ClockFactor - 1 /\ f'.ticks = 0

BackgroundChain == <<"ReadTileID", "ReadTileData0", "ReadTileData1", "PushToFIFO">>

SpriteChain ==
    <<"ReadSpriteID", "ReadSpriteFlags", "ReadSpriteData0", "ReadSpriteData1", "MixInFIFO">>

C1Counted ==
    obs.clean =>
        /\ obs.qticks < 4 =>
              f.state = BackgroundChain[obs.qticks + 1] /\ obs.enq = 0 /\ fifo = << >>
        /\ obs.qticks = 4 => obs.enq = 8

C1PushStep ==
    QualifyingTick /\ f.state = "PushToFIFO" =>
        IF Len(fifo) <= 8
        THEN Len(fifo') = Len(fifo) + 8 /\ f'.state = "ReadTileID"
        ELSE fifo' = fifo /\ f'.state = "PushToFIFO"

\* C1: after Start, the first 4 qualifying ticks go through ReadTileID,
\* ReadTileData0, ReadTileData1 and PushToFIFO and leave exactly 8 entries
\* enqueued (nothing before the 4th); a qualifying tick in PushToFIFO enqueues
\* 8 entries and goes on when the queue holds at most 8, and otherwise changes
\* neither the queue nor the state.
C1_FetchCadence == [](C1Counted) /\ [][C1PushStep]_vars

C1_Witness == obs.clean /\ obs.qticks = 4 /\ obs.enq = 8 /\ f.state = "ReadTileID"

C2Enqueue ==
    Len(fifo') > Len(fifo) =>
        /\ QualifyingTick
        /\ f.state = "PushToFIFO"
        /\ Len(fifo) <= 8
        /\ fifo' = fifo \o RowSeq(f.tileData)

\* C2: the queue never holds more than its 16 slots, and it grows only by a
\* qualifying tick in PushToFIFO that finds at most 8 entries and appends the
\* whole row of 8.
C2_QueueBounded == [](Len(fifo) <= FifoCapacity) /\ [][C2Enqueue]_vars

C2_Witness == Len(fifo) = FifoCapacity /\ f.state = "PushToFIFO" /\ obs.tiles >= 2

C3InPath ==
    obs.active =>
        /\ f.state = SpriteChain[obs.steps + 1]
        /\ f.oldState = obs.S
        /\ f.tileID = obs.tileID
        /\ f.tileData = obs.tileData

C3Return ==
    QualifyingTick /\ obs.active /\ f.state = "MixInFIFO" /\ f'.state # "MixInFIFO" =>
        /\ f'.state = obs.S
        /\ f'.tileID = obs.tileID
        /\ f'.tileData = obs.tileData
        /\ Len(fifo') = Len(fifo)
        /\ \A i \in 9..Len(fifo) : fifo'[i] = fifo[i]

\* C3: a sprite fetch requested in a background state S goes through the five
\* sprite states in order with the background tile ID and row untouched, and
\* the MixInFIFO step that ends it puts the machine back in S, keeps the
\* queue's length and changes at most its first 8 entries.
C3_SpriteResume == [](C3InPath) /\ [][C3Return]_vars

C3_Witness ==
    /\ obs.returned /\ obs.S = "ReadTileData1" /\ f.state = "ReadTileData1"
    /\ obs.steps = 4

(***************************************************************************)
(* Properties of PPU.Run and PPU.Tick.                                     *)
(***************************************************************************)
TransferSteps == PopSteps \cup {"transfer", "fetch", "readLo", "readHi", "push", "tick", "hblank"}

C4Lines ==
    /\ p.LY \in 0..154
    /\ r.pc \in TransferSteps => p.LY \in 0..143
    /\ r.pc = "line" => p.LY \in 0..144
    /\ r.pc = "vblank" => p.LY = 144
    /\ r.pc = "blank" => p.LY \in 144..154 /\ lcd.hblanks = 144 * lcd.vblanks
    /\ r.pc # "blank" => lcd.hblanks = 144 * lcd.vblanks + p.LY

C4Step ==
    /\ p'.LY # p.LY => \/ p'.LY = p.LY + 1 /\ p.LY < 154
                       \/ p'.LY = 0 /\ p.LY = 154 /\ r'.pc = "line"
    /\ lcd'.vblanks # lcd.vblanks =>
          /\ lcd'.vblanks = lcd.vblanks + 1
          /\ p.LY = 144 /\ p'.LY = 144
          /\ r'.pc = "blank"

\* C4: LY counts 0..143 while lines are drawn and 144..153 through the blank
\* lines (154 only as the blank loop ends, where the next statement sets it to
\* 0), a step at a time; LCD.VBlank is called with LY = 144 and nowhere else,
\* once for every 144 HBlank calls, that is once in each cycle of 154 lines.
C4_LineCycle == [](C4Lines) /\ [][C4Step]_vars

C4_Witness == lcd.vblanks = 1 /\ lcd.hblanks = 144 /\ p.LY = 0 /\ r.pc = "line"

C5Line ==
    r.pc \in TransferSteps =>
        /\ lcd.linePixels = r.x
        /\ r.x <= 160
        /\ r.pc = "hblank" => r.x = 160
        /\ lcd.hblanks = 144 * lcd.vblanks + p.LY

C5EndOfLine ==
    lcd'.hblanks # lcd.hblanks =>
        /\ r.pc = "hblank" /\ r'.pc = "line"
        /\ lcd.linePixels = 160
        /\ lcd'.hblanks = lcd.hblanks + 1
        /\ p'.LY = p.LY + 1

C8_TimingIgnoresDisplayBit ==
    /\ p.state = p2.state
    /\ p.oamIndex = p2.oamIndex
    /\ p.ticks = p2.ticks
    /\ p.Cycle = p2.Cycle
    /\ p.LY = p2.LY

C8_Witness ==
    /\ ~DisplayOff(p) /\ DisplayOff(p2)
    /\ p.Cycle = 80 /\ p.state = "PixelTransfer" /\ p2.state = "PixelTransfer"
    /\ lcd.blanks = 0 /\ lcd2.blanks = 40

\* C9: with the display-on bit cleared the sink gets no Write, only Blank,
\* one for each divided step; with the bit set it gets no Blank.
C9_BlankWhileOff ==
    /\ DisplayOff(p) => lcd.last # "Write" /\ lcd.linePixels = 0
    /\ lcd.blanks = IF DisplayOff(p) THEN p.Cycle \div ClockFactor ELSE 0

(***************************************************************************)
(* Properties of WaveTable.Tick.                                           *)
(***************************************************************************)
\* A step that is a call of Tick.
TickStep == out'.tick # out.tick

\* The channel with index and accumulator at 0.
Rewound(v) == [v EXCEPT !.sampleOffset = 0, !.ticks = 0]

C6ResetsBoth ==
    TickStep /\ Restart(w) =>
        /\ w' = WaveTick(Rewound(w)).w
        /\ out'.path # "played" => w'.sampleOffset = 0 /\ w'.ticks = 0

\* C6 as claimed: a Tick that sees the restart bit goes on from sample index
\* 0 and sub-tick accumulator 0, whatever they were before the call: it ends
\* as the same call on a channel with both at 0 ends, and with both at 0 when
\* it returns silence.
C6_RestartResetsIndex == [][C6ResetsBoth]_vars

C6ResetsTicks ==
    TickStep /\ Restart(w) =>
        /\ w'.enabled /\ ~Restart(w')
        /\ w' = WaveTick([w EXCEPT !.ticks = 0]).w
        /\ ~SoundOn(w) => w'.ticks = 0 /\ w'.sampleOffset = w.sampleOffset

\* What Tick does on a restart (the part of C6 that holds): it enables the
\* channel, clears the bit and counts its sub-ticks from 0 whatever the
\* accumulator was; when the call returns silence the accumulator is left at 0
\* and the sample index is left where it was.
C6_RestartResetsTicks == [][C6ResetsTicks]_vars

C6_Witness ==
    /\ out.restarted /\ out.path = "off"
    /\ w.ticks = 0 /\ w.sampleOffset # 0 /\ w.enabled /\ ~Restart(w)

C7Frame ==
    /\ out'.sample = 0
    /\ w'.sampleOffset = w.sampleOffset
    /\ w'.sample = w.sample
    /\ w'.ticks = IF Restart(w) THEN 0 ELSE w.ticks

C7Before == TickStep /\ (~w.enabled \/ ~SoundOn(w)) => C7Frame

\* C7 as claimed: a Tick on a channel that is not enabled, or whose on/off
\* bit is clear, returns 0 and keeps index and sample, and the accumulator
\* but for a restart, also when the restart bit is set.
C7_SilentIfNotEnabled == [][C7Before]_vars

C7After == TickStep /\ ((~w.enabled /\ ~Restart(w)) \/ ~SoundOn(w)) => C7Frame

\* C7 amended: the same of a channel that is neither enabled nor restarted by
\* this call, or whose on/off bit is clear.
C7_SilentIfOffOrUntriggered == [][C7After]_vars

C7_Witness ==
    /\ out.restarted /\ out.path = "off" /\ out.sample = 0
    /\ w.sample # 0 /\ w.sampleOffset # 0 /\ w.ticks = 0

(***************************************************************************)
(* Properties of row decoding.                                             *)
(***************************************************************************)
C10Case == dec.lo = 176 /\ dec.hi = 192 /\ ~HasFlag(dec.flags, SpriteFlipX)

\* C10 as claimed: planes 10110000 and 11000000 decode to 3,2,2,1,0,0,0,0.
C10_Row3221 ==
    C10Case =>
        /\ dec.stage \in {"plane1", "decoded"} => RowSeq(dec.data) = <<3, 2, 2, 1, 0, 0, 0, 0>>
        /\ dec.stage = "decoded" => dec.line = <<3, 2, 2, 1, 0, 0, 0, 0>>

\* C10 amended: planes 10110000 and 11000000, not flipped, decode to
\* 3,2,1,1,0,0,0,0, in the fetcher's row buffer after both planes are read
\* and in PPU.Decode's result.
C10_Row3211 ==
    C10Case =>
        /\ dec.stage \in {"plane1", "decoded"} => RowSeq(dec.data) = <<3, 2, 1, 1, 0, 0, 0, 0>>
        /\ dec.stage = "decoded" => dec.line = <<3, 2, 1, 1, 0, 0, 0, 0>>

C10_Witness ==
    /\ C10Case /\ dec.flags = 0 /\ dec.stage = "decoded"
    /\ dec.line = <<3, 2, 1, 1, 0, 0, 0, 0>> /\ RowSeq(dec.data) = dec.line

C11Case == dec.stage \in {"plane0", "plane1", "decoded"}

\* C11: the row decoded with the horizontal-flip flag set is the row decoded
\* without it in reverse column order (pixel i of one is pixel 7-i of the
\* other), after the first plane and after both, and the two decodings read
\* the same addresses.
C11_FlipReverses ==
    C11Case =>
        /\ \A i \in 0..7 : dec.data[i] = dec.mirror[7 - i]
        /\ dec.reads = dec.mirrorReads
        /\ Len(dec.reads) = IF dec.stage = "plane0" THEN 1 ELSE 2

C11_Witness ==
    /\ dec.stage = "plane1" /\ dec.flags = SpriteFlipX /\ dec.lo = 176 /\ dec.hi = 192
    /\ RowSeq(dec.data) = <<0, 0, 0, 0, 1, 1, 2, 3>>
    /\ RowSeq(dec.mirror) = <<3, 2, 1, 1, 0, 0, 0, 0>>
    /\ dec.reads = <<dec.addr, dec.addr + 1>>

(***************************************************************************)
(* Properties of the scanline controller's state (PPU.Tick under PPU.Run). *)
(***************************************************************************)
C12Counted ==
    /\ p.state = "OAMSearch" => p.oamIndex < 40 /\ p.Cycle = p.oamIndex * ClockFactor + p.ticks
    /\ p.state # "OAMSearch" => p.state = "PixelTransfer" /\ p.oamIndex = 40

C12Change ==
    p'.state # p.state =>
        /\ p.state = "OAMSearch" /\ p'.state = "PixelTransfer"
        /\ p.oamIndex = 39 /\ p'.oamIndex = 40
        /\ p'.Cycle = 40 * ClockFactor

C12LineStart == r.pc = "line" /\ p.LY < VisibleLines => p.state = "OAMSearch"

\* C12 as claimed: the controller is in Search as every scanline starts, and
\* it leaves Search for Transfer on the 40th divided step counted there (tick
\* 40 x ClockFactor) and on no other step.
C12_SearchOnEveryLine == [](C12Counted /\ C12LineStart) /\ [][C12Change]_vars

\* The part of C12 that holds: Search is left once, on the 40th divided step.
C12_FortiethStep == [](C12Counted) /\ [][C12Change]_vars

C13Pops ==
    /\ r.pc \in ReadSteps => r.pops = 2
    /\ r.pc \in PopSteps => r.pops < 2
    /\ r.pc \in {"transfer", "tick", "hblank"} => r.pops = 0

C13Step ==
    /\ r'.pops = r.pops + 1 =>
          /\ r.pc \in PopSteps
          /\ fifo' = PPUPop(fifo, lcd).fifo /\ lcd' = PPUPop(fifo, lcd).lcd
    /\ r.pc \in ReadSteps /\ r'.pc # r.pc => r.pops = 2 /\ r'.pops = 0
    /\ r.pc = "fetch" /\ r'.pc # r.pc => r'.pc = "pop3"
    /\ r.pc = "readLo" /\ r'.pc # r.pc => r'.pc = "pop5"
    /\ r.pc = "readHi" /\ r'.pc # r.pc => r'.pc = "pop7"
    /\ r.pc = "push" /\ r'.pc # r.pc => r'.pc = "tick" /\ Len(fifo') = Len(fifo) + 8
    /\ r'.tileNb # r.tileNb => r.pc = "fetch"
    /\ r'.lineLo # r.lineLo => r.pc = "readLo"
    /\ r'.lineHi # r.lineHi => r.pc = "readHi"
    /\ Len(fifo') > Len(fifo) => r.pc = "push"

\* C13: in every pass of the transfer loop Run calls Pop exactly twice before
\* the tile number read, twice more before the read of the first plane byte,
\* twice more before the read of the second and twice more before the push of
\* the 8 pixels; no read and no push is made from anywhere else.
C13_TwoPopsBeforeEachRead == [](C13Pops) /\ [][C13Step]_vars

C13_Witness ==
    /\ r.pc = "push" /\ r.pops = 2 /\ r.x = 8 /\ p.LY = 1 /\ Len(fifo) = 0
    /\ lcd.linePixels = 8

(***************************************************************************)
(* Properties of the tick accumulators.                                    *)
(***************************************************************************)
C14Range == f.ticks \in 0..(ClockFactor - 1) /\ p.ticks \in 0..(ClockFactor - 1)

\* A call of Fetcher.Tick on an enabled fetcher counts up or, reaching
\* ClockFactor, goes back to 0; only the latter takes a step of the machine.
C14Fetcher ==
    /\ f'.ticks # f.ticks =>
          \/ /\ f.ticks + 1 < ClockFactor /\ f'.ticks = f.ticks + 1
             /\ f' = [f EXCEPT !.ticks = f.ticks + 1] /\ fifo' = fifo
          \/ f.ticks + 1 = ClockFactor /\ f'.ticks = 0
    /\ \/ f'.tileID # f.tileID \/ f'.tileData # f.tileData
       \/ f'.spriteID # f.spriteID \/ f'.spriteFlags # f.spriteFlags
       \/ f'.spriteData # f.spriteData
       \/ (fifo' # fifo /\ Len(fifo') >= Len(fifo))
       => f.Enabled /\ f.ticks + 1 = ClockFactor /\ f'.ticks = 0

\* The same of PPU.Tick, whose calls Cycle counts.
C14PPU ==
    /\ p'.Cycle # p.Cycle =>
          /\ p'.Cycle = p.Cycle + 1
          /\ \/ /\ p.ticks + 1 < ClockFactor /\ p'.ticks = p.ticks + 1
                /\ p' = [p EXCEPT !.Cycle = p.Cycle + 1, !.ticks = p.ticks + 1]
                /\ lcd' = lcd
             \/ p.ticks + 1 = ClockFactor /\ p'.ticks = 0
    /\ p'.oamIndex # p.oamIndex \/ p'.state # p.state \/ lcd' # lcd
       => p.ticks + 1 = ClockFactor /\ p'.ticks = 0 /\ p'.Cycle = p.Cycle + 1

\* C14: the tick accumulators of the fetcher and of the PPU stay in
\* 0..ClockFactor-1; a call of Tick either counts one up and does nothing
\* else, or finds the accumulator one short of ClockFactor, sets it to 0 and
\* takes the step; nothing of either machine's step happens on another call.
C14_AccumulatorsInRange == [](C14Range) /\ [][C14Fetcher /\ C14PPU]_vars

C14_Witness ==
    /\ f.Enabled /\ f.ticks = 0 /\ f.state = "ReadTileData0" /\ obs.qticks = 1
    /\ p.ticks = 0 /\ p.Cycle = ClockFactor /\ p.oamIndex = 1 /\ lcd.blanks = 1

(***************************************************************************)
(* Properties of the restart bit and of the frequency registers.           *)
(***************************************************************************)
\* NRx4 but for its restart bit.
LowBits(v) == v.NRx4 % NRx4RestartSound

C15Tick ==
    TickStep =>
        /\ ~Restart(w')
        /\ LowBits(w') = LowBits(w)
        /\ out'.restarted = Restart(w)
        /\ Restart(w) => w'.enabled
        /\ ~Restart(w) => w'.NRx4 = w.NRx4 /\ w'.enabled = w.enabled

C15Trigger == w'.enabled # w.enabled => TickStep /\ Restart(w) /\ w'.enabled

\* C15: a call of Tick leaves the restart bit of NRx4 clear and the other
\* bits of NRx4 as they were; it triggers the channel exactly when it finds
\* the bit set, so a bit written once triggers on the next call and on no
\* later one, and nothing else enables the channel.
C15_RestartBitCleared == [][C15Tick /\ C15Trigger]_vars

C15_Witness ==
    /\ ~out.restarted /\ out.path = "played" /\ out.tick
    /\ w.enabled /\ w.NRx4 = 199 - NRx4RestartSound

(***************************************************************************)
(* Properties of Fetcher.Start.                                            *)
(***************************************************************************)
\* The row of 8 pixels that the two plane bytes at addr hold.
RowAt(mem, addr) ==
    [i \in 1..8 |-> 2 * Bit(Read(mem, addr + 1), 8 - i) + Bit(Read(mem, addr), 8 - i)]

Reversed(row) == [i \in 1..8 |-> row[9 - i]]

\* The background row of the fetch context and tile the fetcher is on.
ContextRow(g, mem) ==
    RowAt(mem, TileRowAddr(g.dataAddr, Read(mem, g.mapAddr + g.tileOffset), g.signedID,
                           g.tileLine, 0))

\* The row of the sprite the fetcher has been given, as its flags turn it.
SpriteRow(g, mem) ==
    LET flags == Read(mem, g.sprite.Address + 3)
        row   == RowAt(mem, TileRowAddr(32768, Read(mem, g.sprite.Address + 2), FALSE,
                                        g.spriteLine, flags))
    IN  IF HasFlag(flags, SpriteFlipX) THEN Reversed(row) ELSE row

C16Started ==
    obs.from # "None" =>
        /\ f.state = "ReadTileID" /\ fifo = << >> /\ f.Enabled
        /\ f.mapAddr = obs.ctx.mapAddr /\ f.dataAddr = obs.ctx.dataAddr
        /\ f.tileOffset = obs.ctx.tileOffset /\ f.tileLine = obs.ctx.tileLine
        /\ f.signedID = obs.ctx.signedID

C16Fresh ==
    /\ f.Enabled => /\ f.mapAddr = obs.ctx.mapAddr /\ f.dataAddr = obs.ctx.dataAddr
                    /\ f.tileLine = obs.ctx.tileLine /\ f.signedID = obs.ctx.signedID
    /\ f.state = "PushToFIFO" => RowSeq(f.tileData) = ContextRow(f, vram)
    /\ f.state = "MixInFIFO" => RowSeq(f.spriteData) = SpriteRow(f, vram)

\* C16: Start, in whatever state it is called, leaves the machine enabled in
\* ReadTileID with an empty queue and the arguments as its fetch context;
\* from then on the context is the one given, and a row is pushed only when
\* it is the row of that context's tile (a sprite row mixed only when it is
\* the row of the sprite given), so nothing read for an abandoned fetch gets
\* into the queue.
C16_StartAbandonsFetch ==
    [](C16Started /\ C16Fresh) /\ [][C2Enqueue]_vars

C16_Witness ==
    /\ obs.from = "MixInFIFO" /\ obs.stalled
    /\ f.state = "ReadTileID" /\ fifo = << >> /\ f.Enabled
    /\ f.oldState = "PushToFIFO" /\ RowSeq(f.tileData) # ContextRow(f, vram)

\* C17: whatever the frequency registers hold, the raw frequency is at most
\* 2047, so the divisor 2048 - raw is at least 1, the frequency at least 1
\* (in fact 32 to 65536) and the divisor frequency x 32 of the sample period
\* not 0 (the period is 2 to 4096 sub-ticks); Tick plays with them.
C17_FrequencyInRange ==
    /\ RawFreq(w) \in 0..2047
    /\ 2048 - RawFreq(w) >= 1
    /\ Freq(w) \in 32..65536
    /\ Freq(w) * 32 # 0
    /\ SamplePeriod(w) \in 2..4096
    /\ out.path # "none" => out.path = "played" /\ w.ticks < SamplePeriod(w)

C17_Witness ==
    /\ out.path = "played" /\ w.NRx3 = 255 /\ w.NRx4 = 127
    /\ RawFreq(w) = 2047 /\ Freq(w) = 65536 /\ SamplePeriod(w) = 2
    /\ w.sampleOffset > 0

(***************************************************************************)
(* Properties of PPU.Pop.                                                  *)
(***************************************************************************)
C18Pop ==
    r.pc \in PopSteps /\ r'.pc # r.pc =>
        IF fifo = << >>
        THEN r'.x = r.x /\ lcd' = lcd /\ fifo' = << >>
        ELSE /\ r'.x = r.x + 1
             /\ fifo' = Tail(fifo)
             /\ lcd' = [lcd EXCEPT !.last = "Write", !.pixel = Head(fifo),
                                   !.linePixels = lcd.linePixels + 1]

C18Queue ==
    /\ fifo' # fifo => \/ r.pc \in PopSteps /\ fifo' = Tail(fifo)
                       \/ r.pc = "push" /\ SubSeq(fifo', 1, Len(fifo)) = fifo
    /\ lcd'.linePixels > lcd.linePixels => r.pc \in PopSteps

\* C18: a call of Pop that finds the queue empty returns 0 and touches
\* neither queue nor sink; one that finds it not empty returns 1, takes the
\* oldest entry off and writes that entry, once, to the sink.  The queue
\* otherwise only grows at its other end and the sink is written by Pop
\* alone, so pixels are written in the order they were pushed.
C18_PopOldestOrNothing == [][C18Pop /\ C18Queue]_vars

C18_Witness ==
    /\ r.pc = "pop4" /\ r.x = 3 /\ Len(fifo) = 5 /\ p.LY = 0
    /\ lcd.last = "Write" /\ lcd.linePixels = 3 /\ lcd.pixel = 1 /\ fifo[1] = 1

(***************************************************************************)
(* Properties of a sprite fetch left to run its course.                    *)
(***************************************************************************)
\* C19 as claimed: with ticks coming and a consumer that only pops, a sprite
\* fetch always gets through MixInFIFO and back to the saved state.
C19_SpritePathCompletes == (f.state \in SpriteStates) ~> (f.state \notin SpriteStates)

C19Mix ==
    QualifyingTick /\ f.state = "MixInFIFO" =>
        IF Len(fifo) >= 8
        THEN /\ f' = [f EXCEPT !.ticks = 0, !.state = f.oldState]
             /\ Len(fifo') = Len(fifo)
             /\ \A i \in 1..Len(fifo) :
                   fifo'[i] = IF i <= 8 /\ f.spriteData[i - 1] # 0 THEN f.spriteData[i - 1]
                              ELSE fifo[i]
        ELSE f' = [f EXCEPT !.ticks = 0] /\ fifo' = fifo

\* A sprite fetch is under way in every sprite state, a tick can always be
\* delivered to it, and it is out of the four reading states before the
\* 8th tick (4 x ClockFactor) delivered since FetchSprite.
C19Within ==
    f.state \in SpriteStates =>
        /\ obs.active /\ f.Enabled /\ TickAllowed
        /\ f.state # "MixInFIFO" =>
              /\ obs.since < 4 * ClockFactor
              /\ obs.since >= obs.steps * ClockFactor - 1
              /\ obs.since <= obs.steps * ClockFactor + 1

\* Below 8 entries the machine stays in MixInFIFO and the queue below 8.
C19Stalls ==
    f.state = "MixInFIFO" /\ Len(fifo) < 8 => f'.state = "MixInFIFO" /\ Len(fifo') < 8

C19Reaches == (f.state \in SpriteStates) ~> (f.state = "MixInFIFO")

C19Completes ==
    (f.state = "MixInFIFO" /\ Len(fifo) >= 8) ~> (f.state \notin SpriteStates \/ Len(fifo) < 8)

\* C19 amended: with ticks coming, a sprite fetch gets to MixInFIFO, by the
\* 8th tick after FetchSprite.  There a qualifying tick that finds at least 8
\* entries mixes the sprite row into the first 8 and restores the saved
\* state, and one that finds fewer changes nothing: the fetch completes
\* unless the queue is or falls below 8, and with a consumer that only pops
\* such a queue stays below 8 and the machine in MixInFIFO for ever.
C19_SpritePathCompletesFromEight ==
    [](C19Within) /\ [][C19Mix /\ C19Stalls]_vars /\ C19Reaches /\ C19Completes

C19_Witness ==
    /\ obs.returned /\ obs.S = "PushToFIFO" /\ f.state = "PushToFIFO" /\ Len(fifo) = 8
    /\ \E i \in 1..8 : f.spriteData[i - 1] # 0 /\ fifo[i] = f.spriteData[i - 1]
                        /\ fifo[i] # f.tileData[i - 1]

(***************************************************************************)
(* Properties of a tile row fetched by the machine.                        *)
(***************************************************************************)
\* The address of the row the fetcher is on.
RowAddr(g, mem) ==
    TileRowAddr(g.dataAddr, Read(mem, g.mapAddr + g.tileOffset), g.signedID, g.tileLine, 0)

\* C20: when the machine has taken the ReadTileData0 and ReadTileData1 steps
\* and stands in PushToFIFO, its row buffer is what PPU.Decode gives for the
\* same address, pixel i being 2 x bit 7-i of the byte at addr+1 plus bit 7-i
\* of the byte at addr, whatever the buffer held before and whether or not
\* sprite fetches came in between.
C20_RowIsDecode ==
    f.state = "PushToFIFO" =>
        /\ f.tileID = Read(vram, f.mapAddr + f.tileOffset)
        /\ RowSeq(f.tileData) = PPUDecode(vram, RowAddr(f, vram))
        /\ PPUDecode(vram, RowAddr(f, vram)) = RowAt(vram, RowAddr(f, vram))

C20_Witness ==
    /\ f.state = "PushToFIFO" /\ f.oldState = "ReadTileData1" /\ Len(fifo) = 8
    /\ RowSeq(f.spriteData) = SpriteRow(f, vram)
    /\ Read(vram, RowAddr(f, vram)) = 176 /\ Read(vram, RowAddr(f, vram) + 1) = 192
    /\ RowSeq(f.tileData) = <<3, 2, 1, 1, 0, 0, 0, 0>>
    /\ \E i \in 1..8 : fifo[i] = 3 /\ f.spriteData[i - 1] = 0

(***************************************************************************)
(* Properties of the tile-row address.                                     *)
(***************************************************************************)
\* The byte as a two's-complement value.
SignedByte(b) == CHOOSE s \in -128..127 : (s - b) % 256 = 0

\* The tile number both machines have been given.
MapTile == Read(vram, 38912)

\* The address read by the ReadTileData0 step the fetcher has taken.
FetcherRowAddr == ReadAddr(0, f.dataAddr, f.tileID, f.signedID, f.tileLine, 0)

\* Plane 0 of the row at addr, as ReadTileLine leaves it in a buffer.
Plane0At(mem, addr) == [i \in 0..7 |-> Bit(Read(mem, addr), 7 - i)]

C21Fetcher ==
    f.state = "ReadTileData1" =>
        /\ f.tileID = MapTile
        /\ FetcherRowAddr = IF f.signedID
                            THEN f.dataAddr + 16 * SignedByte(f.tileID) + 2 * f.tileLine
                            ELSE f.dataAddr + 16 * f.tileID + 2 * f.tileLine
        /\ f.tileData = Plane0At(vram, FetcherRowAddr)

C21Unsigned ==
    r.pc = "pop5" /\ HasFlag(p.LCDC, LCDCBGWindowTileDataSelect) =>
        /\ r.tileNb = MapTile
        /\ r.addr = 32768 + 16 * r.tileNb + 2 * (r.y % 8)
        /\ r.lineLo = Read(vram, r.addr)

C21Agree ==
    r.pc = "pop5" /\ f.state = "ReadTileData1" => r.addr = FetcherRowAddr

\* C21 as claimed: the fetcher reads the row at base + 16 x s + 2 x line in
\* signed mode, s the tile number as a signed byte, and at base + 16 x byte +
\* 2 x line in unsigned mode; Run's address for the same tile and line is the
\* fetcher's, in the signed tile-data block as in the unsigned one.
C21_TileRowAddress == C21Fetcher /\ C21Unsigned /\ C21Agree

\* The part of C21 that holds: the fetcher's two addresses, and Run's
\* agreement with it in the unsigned block and, in the signed block, for
\* tile numbers 0..127.
C21_FetcherTileRowAddress ==
    /\ C21Fetcher
    /\ C21Unsigned
    /\ HasFlag(p.LCDC, LCDCBGWindowTileDataSelect) \/ r.tileNb < 128 => C21Agree
    /\ r.pc = "pop5" /\ ~HasFlag(p.LCDC, LCDCBGWindowTileDataSelect) =>
          r.addr = 36864 + 16 * r.tileNb + 2 * (r.y % 8)

(***************************************************************************)
(* Properties of the fetch context.                                        *)
(***************************************************************************)
FetchContextOf(g) ==
    [mapAddr |-> g.mapAddr, dataAddr |-> g.dataAddr, tileOffset |-> g.tileOffset,
     tileLine |-> g.tileLine, signedID |-> g.signedID]

\* A qualifying tick in PushToFIFO that finds room in the queue.
PushFires == QualifyingTick /\ f.state = "PushToFIFO" /\ Len(fifo) <= 8

\* A call of Start: the observer has its arguments and the state it came in.
StartStep == obs'.from # "None" /\ obs' # obs /\ FetchContextOf(f') = obs'.ctx

C22Step ==
    /\ PushFires =>
          FetchContextOf(f') =
              [FetchContextOf(f) EXCEPT !.tileOffset = (f.tileOffset + 1) % 32]
    /\ FetchContextOf(f') # FetchContextOf(f) => PushFires \/ StartStep

\* Since the last Start the context is its arguments but for the tile offset,
\* which has moved on by one, modulo 32, for each batch pushed.
C22Since ==
    f.Enabled =>
        FetchContextOf(f) =
            [obs.ctx EXCEPT !.tileOffset = (obs.ctx.tileOffset + obs.tiles) % 32]

\* C22: between two calls of Start the fetch context is changed only by a
\* PushToFIFO step that fires, which sets the tile offset to (offset + 1) mod
\* 32 and leaves map address, data address, tile line and signed flag alone;
\* every other Tick (not qualifying, disabled, stalled, in any other state)
\* and FetchSprite leave all five as they are.
C22_ContextChangedByPushOnly == [](C22Since) /\ [][C22Step]_vars

C22_Witness ==
    /\ obs.ctx.tileOffset = 31 /\ f.tileOffset = 1 /\ obs.tiles = 2
    /\ obs.returned /\ f.state = "ReadTileID" /\ Len(fifo) >= 8
    /\ FetchContextOf(f) = [obs.ctx EXCEPT !.tileOffset = 1]

(***************************************************************************)
(* Properties of the sample index and of the sample.                       *)
(***************************************************************************)
\* Sample i of the table: two to a byte, the upper nibble first.
TableNibble(v, i) ==
    IF i % 2 = 0 THEN v.Pattern[i \div 2] \div 16 ELSE v.Pattern[i \div 2] % 16

\* The right shifts for the output-level codes 0 (mute), 1, 2 and 3.
LevelShift(v) == <<4, 0, 1, 2>>[((v.NRx2 \div 32) % 4) + 1]

\* The sub-ticks that a call starts counting from.
TicksBefore(v) == IF Restart(v) THEN 0 ELSE v.ticks

\* The sub-tick of the call, counted from 1, on which the accumulator first
\* reaches the period.
FirstBoundary(v) ==
    IF SamplePeriod(v) - TicksBefore(v) > 1 THEN SamplePeriod(v) - TicksBefore(v) ELSE 1

\* The sample boundaries crossed by the SoundOutRate sub-ticks of a call.
Boundaries(v) ==
    IF SoundOutRate < FirstBoundary(v) THEN 0
    ELSE 1 + (SoundOutRate - FirstBoundary(v)) \div SamplePeriod(v)

C23Range == w.sampleOffset \in 0..31 /\ w.sample \in 0..15 /\ out.sample \in 0..15

C23Played ==
    TickStep /\ out'.path = "played" =>
        /\ w'.sampleOffset = (w.sampleOffset + Boundaries(w)) % 32
        /\ out'.sample = w'.sample
        /\ IF Boundaries(w) = 0
           THEN /\ w'.ticks = TicksBefore(w) + SoundOutRate
                /\ w'.sample = w.sample
                /\ out.path = "played" => out'.sample = out.sample
           ELSE /\ w'.ticks = (SoundOutRate - FirstBoundary(w)) % SamplePeriod(w)
                /\ w'.sample = TableNibble(w, w'.sampleOffset) \div Pow2(LevelShift(w))

C23Others ==
    /\ w'.sampleOffset # w.sampleOffset \/ w'.sample # w.sample =>
          TickStep /\ out'.path = "played" /\ Boundaries(w) > 0
    /\ TickStep /\ out'.path = "played" => w.enabled \/ Restart(w)

\* C23: in a channel that is enabled and switched on, each time the sub-tick
\* accumulator reaches the sample period the sample index goes up by 1 modulo
\* 32 and the accumulator back to 0, so a call of Tick moves the index by the
\* number of boundaries its sub-ticks cross; the sample is then the nibble of
\* table byte index/2 (upper for an even index, lower for an odd one) shifted
\* right by 4, 0, 1 or 2 for output-level codes 0, 1, 2, 3.  A call that
\* crosses no boundary returns the sample as it was; the index stays in
\* 0..31 and the sample in 0..15.
C23_SampleIndexAdvances == [](C23Range) /\ [][C23Played /\ C23Others]_vars

C23_Witness ==
    /\ out.path = "played" /\ w.sampleOffset = 31 /\ w.NRx2 = 64
    /\ w.sample = 7 /\ out.sample = 7 /\ TableNibble(w, 31) = 15

(***************************************************************************)
(* Properties of the saved state.                                          *)
(***************************************************************************)
\* The sprite fetches the machine has to get through: the one it is in and,
\* when the state saved for it is a sprite state, the one it was in before.
SpriteFetches(g) ==
    IF g.state \notin SpriteStates THEN 0
    ELSE IF g.oldState \in SpriteStates THEN 2
    ELSE 1

C24Saved ==
    /\ f.oldState \in BackgroundStates \cup {FetcherZero.oldState}
    /\ f.state \in SpriteStates \/ obs.returned => f.oldState \in BackgroundStates
    /\ f.Enabled => f.state \in BackgroundStates \cup SpriteStates
    /\ SpriteFetches(f) <= 1
    /\ obs.active <=> SpriteFetches(f) = 1

C24Step ==
    /\ f'.oldState # f.oldState =>
          /\ f.state \in BackgroundStates /\ f'.oldState = f.state
          /\ f'.state = "ReadSpriteID"
    /\ f.state \notin SpriteStates /\ f'.state \in SpriteStates =>
          f'.state = "ReadSpriteID" /\ f'.oldState = f.state
    /\ QualifyingTick /\ f.state = "MixInFIFO" /\ f'.state # "MixInFIFO" =>
          f'.state \in BackgroundStates /\ f'.state = f.oldState

\* C24: with FetchSprite called only in the states ReadTileID, ReadTileData0,
\* ReadTileData1 and PushToFIFO, whatever the order of Start, FetchSprite and
\* Tick, the state FetchSprite saves is one of these four (the field holds
\* nothing else but its initial value, and that only until the first
\* FetchSprite), a sprite fetch is never begun inside another, and the
\* MixInFIFO step that completes a sprite path puts the machine back in the
\* saved state, one of the four.
C24_OldStateIsBackground == [](C24Saved) /\ [][C24Step]_vars

C24_Witness ==
    /\ obs.returned /\ f.state = "ReadTileData0" /\ f.oldState = "ReadTileData0"
    /\ obs.steps = 4 /\ Len(fifo) >= 8 /\ obs.tiles = 2

(***************************************************************************)
(* Properties of the queue under PPU.Run.                                  *)
(***************************************************************************)
\* At the end-of-line hook the queue is the row Run read last on this line.
C25AtHook ==
    r.pc = "hblank" =>
        /\ Len(fifo) = 8
        /\ fifo = DecodeAppend(<< >>, r.lineLo, r.lineHi, 7)
        /\ r.lineLo = Read(vram, r.addr) /\ r.lineHi = Read(vram, r.addr + 1)
        /\ r.addr = RunTileRowAddr(p, r.tileNb, r.y)
        /\ r.y = (p.SCY + p.LY) % 256
        /\ r.tileNb = FetchTileNumber(p, vram, LineWidth - 6, r.y)

\* From the hook on, the queue is what it was there, less the pixels written
\* since, until the next line's first push.
C25Carried ==
    lcd.hblanks > 0 =>
        /\ Len(r.carry) = 8
        /\ r.pc \in {"line", "vblank", "blank"} => fifo = r.carry
        /\ r.pc \in TransferSteps /\ r.x < 8 =>
              fifo = SubSeq(r.carry, r.x + 1, 8) /\ lcd.linePixels = r.x

C25Hook ==
    lcd'.hblanks # lcd.hblanks => Len(fifo) = 8 /\ fifo' = fifo /\ r'.carry = fifo

C25Write ==
    lcd'.linePixels = lcd.linePixels + 1 /\ lcd.linePixels < 8 /\ lcd.hblanks > 0 =>
        lcd'.last = "Write" /\ lcd'.pixel = r.carry[lcd.linePixels + 1]

\* C25: under Run the queue never holds more than 8 entries and nothing
\* empties it between lines: at every call of LCD.HBlank it holds exactly 8
\* pixels, the row read and pushed by the last pass of the line just
\* finished, and these 8, in order, are the first 8 pixels written to the
\* sink on the next line (the first line of the next frame after line 143).
C25_QueueCarriedAcrossLines ==
    [](Len(fifo) <= 8 /\ C25AtHook /\ C25Carried) /\ [][C25Hook /\ C25Write]_vars

C25_Witness ==
    /\ r.pc = "fetch" /\ p.LY = 0 /\ lcd.vblanks = 1 /\ r.x = 2 /\ lcd.linePixels = 2
    /\ Len(r.carry) = 8 /\ fifo = SubSeq(r.carry, 3, 8) /\ lcd.pixel = r.carry[2]
    /\ r.carry[2] # 0 /\ r.y # (p.SCY + p.LY) % 256

====
